---- MODULE Spec2Model ----
(***************************************************************************)
(* Dependency-group export and installed-state reconciliation of huak:     *)
(*   src/src/huak/ops/export.rs  export_dependencies_to_file,              *)
(*                               process_dependencies                       *)
(*   src/src/huak/ops/update.rs  update_project_dependencies                *)
(***************************************************************************)
EXTENDS Integers, Sequences, FiniteSets, TLC

VARIABLES
    manifest,      \* the project metadata on disk: [dependencies, optional_dependencies]
    include,       \* options.include after split(','), <<>> when the option is None
    exclude,       \* options.exclude after split(','), <<>> when the option is None
    parentExists,  \* does the parent directory of the output path exist
    file0,         \* the destination file before the export ran
    file,          \* the destination file: NoFile or its lines
    all_deps,      \* export.rs all_dependencies, filled by the process step
    pc,            \* position inside export_dependencies_to_file
    result,        \* what export_dependencies_to_file returned
    installed,     \* python_env.installed_packages(), a sequence of [name, version]
    prevSeen,      \* installed packages seen by the run before the last one
    lastSeen,      \* installed packages seen by the last run of update
    loaded,        \* metadata as loaded by the last run of update
    wrote,         \* did the last run of update call write_file
    runs           \* number of runs of update that reached the reconciliation loop

vars == <<manifest, include, exclude, parentExists, file0, file, all_deps, pc,
          result, installed, prevSeen, lastSeen, loaded, wrote, runs>>

exportVars == <<manifest, include, exclude, parentExists, file0, file, all_deps,
                pc, result>>
updateVars == <<installed, prevSeen, lastSeen, loaded, wrote, runs>>

----------------------------------------------------------------------------
(* Bounds *)

\* longest required-dependency list of a manifest
MaxRequired == 2
\* largest number of names in an include or an exclude option
MaxFilter == 2
\* highest version the installer can bring a package to
MaxVersion == 3
\* number of runs of update that are followed
MaxRuns == 3

----------------------------------------------------------------------------
(* Values *)

\* Option<T>: None is the empty sequence, Some(x) the one-element sequence
None == <<>>
Some(x) == <<x>>
Unwrap(o) == o[1]

\* the destination path: no file there, or a file holding these lines
NoFile == [exists |-> FALSE, lines |-> <<>>]
FileOf(ls) == [exists |-> TRUE, lines |-> ls]

\* A requirement: a name and a version specifier <<operator, version>>.
Dep(n, op, v) == [name |-> n, spec |-> <<op, v>>]

DepA  == Dep("a", ">=", 1)
DepA2 == Dep("a", ">=", 2)
DepDev == Dep("dev", ">=", 1)
DepB  == Dep("b", ">=", 1)
DepC  == Dep("c", ">=", 1)
DepD  == Dep("d", ">=", 1)

Contains(s, x) == \E i \in 1..Len(s) : s[i] = x

Range(s) == {s[i] : i \in 1..Len(s)}

RECURSIVE Flatten(_)
Flatten(ss) == IF ss = <<>> THEN <<>> ELSE Head(ss) \o Flatten(Tail(ss))

SeqsUpTo(S, n) == UNION {[1..k -> S] : k \in 0..n}

----------------------------------------------------------------------------
(* indexmap::IndexMap<String, Vec<Requirement>> as a sequence of entries    *)

Keys(m) == {m[i].key : i \in 1..Len(m)}

\* IndexMap::insert: a present key keeps its position and takes the new value
IndexMapInsert(m, k, v) ==
    IF k \in Keys(m)
    THEN [i \in 1..Len(m) |-> IF m[i].key = k THEN [key |-> k, value |-> v] ELSE m[i]]
    ELSE Append(m, [key |-> k, value |-> v])

RECURSIVE IndexMapExtend(_, _)
IndexMapExtend(m, entries) ==
    IF entries = <<>> THEN m
    ELSE IndexMapExtend(IndexMapInsert(m, Head(entries).key, Head(entries).value),
                        Tail(entries))

----------------------------------------------------------------------------
(* process_dependencies, export.rs 78-130 *)

\* 79-83: the include set, with "required" always inserted
include_set(inc) == Range(inc) \cup {"required"}

exclude_set(exc) == Range(exc)

\* 85-92: one entry per required dependency, keyed by the dependency's NAME,
\* then the optional groups
all_dependencies(dependencies, optional_dependencies) ==
    LET fromRequired ==
            IndexMapExtend(<<>>,
                [i \in 1..Len(dependencies) |->
                    [key |-> dependencies[i].name, value |-> <<dependencies[i]>>]])
    IN  IF optional_dependencies = None THEN fromRequired
        ELSE IndexMapExtend(fromRequired, Unwrap(optional_dependencies))

\* 94-103: the names the loop can return as DependencyGroupNotFound; the loop
\* walks a HashSet union, so which missing name it meets first is not fixed
missing_groups(inc, exc, all) ==
    {g \in include_set(inc) \cup exclude_set(exc) : g /= "required" /\ g \notin Keys(all)}

\* a conflict check that reports only one of the conflicting names
conflict_groups_first_only(inc, exc) ==
    LET c == include_set(inc) \cap exclude_set(exc)
    IN  IF c = {} THEN {} ELSE {CHOOSE g \in c : TRUE}

\* 105-109
conflict_groups(inc, exc) == include_set(inc) \cap exclude_set(exc)

\* a filter that forgets the include list
keep_group_not_excluded(inc, exc, group) == ~Contains(exc, group)

\* 113-123: the closure of filter_map
keep_group(inc, exc, group) ==
    IF inc = <<>> /\ Contains(exc, group) THEN FALSE
    ELSE IF (exc = <<>> /\ Contains(inc, group))
            \/ (Contains(inc, group) /\ ~Contains(exc, group)) THEN TRUE
    ELSE IF inc = <<>> /\ exc = <<>> THEN TRUE
    ELSE FALSE

RECURSIVE filter_map(_, _, _)
filter_map(all, inc, exc) ==
    IF all = <<>> THEN <<>>
    ELSE (IF keep_group(inc, exc, Head(all).key) THEN <<Head(all).value>> ELSE <<>>)
         \o filter_map(Tail(all), inc, exc)

\* every value process_dependencies can return
process_dependencies(inc, exc, dependencies, optional_dependencies) ==
    LET all == all_dependencies(dependencies, optional_dependencies)
        missing == missing_groups(inc, exc, all)
        conflict == conflict_groups(inc, exc)
    IN  IF missing /= {}
        THEN {[kind |-> "DependencyGroupNotFound", group |-> g] : g \in missing}
        ELSE IF conflict /= {}
        THEN {[kind |-> "DependencyGroupConflict", groups |-> conflict]}
        ELSE {[kind |-> "Ok", deps |-> Flatten(filter_map(all, inc, exc))]}

----------------------------------------------------------------------------
(* export_dependencies_to_file, export.rs 15-75 *)

\* 55-59: the required list goes first when "required" is asked for
required_first(inc, exc, dependencies) ==
    IF Contains(inc, "required") /\ ~Contains(exc, "required")
    THEN dependencies ELSE <<>>

\* 31-35
CheckParent ==
    /\ pc = "start"
    /\ IF ~parentExists
       THEN /\ result' = [kind |-> "OutputFilePathDoesNotExist"]
            /\ pc' = "done"
       ELSE /\ pc' = "metadata"
            /\ UNCHANGED result
    /\ UNCHANGED <<manifest, include, exclude, parentExists, file0, file, all_deps>>
    /\ UNCHANGED updateVars

\* 37-42
CheckDependencies ==
    /\ pc = "metadata"
    /\ IF manifest.dependencies = None \/ manifest.optional_dependencies = None
       THEN /\ result' = [kind |-> "ProjectDependenciesNotFound"]
            /\ pc' = "done"
       ELSE /\ pc' = "process"
            /\ UNCHANGED result
    /\ UNCHANGED <<manifest, include, exclude, parentExists, file0, file, all_deps>>
    /\ UNCHANGED updateVars

\* the process step of an export that opens the destination before validating
ProcessDependenciesAfterCreate ==
    /\ pc = "process"
    /\ file' = FileOf(<<>>)
    /\ LET dependencies ==
               IF manifest.dependencies = None THEN <<>>
               ELSE Unwrap(manifest.dependencies)
       IN  \E r \in process_dependencies(include, exclude, dependencies,
                                         manifest.optional_dependencies) :
               IF r.kind = "Ok"
               THEN /\ all_deps' = required_first(include, exclude, dependencies) \o r.deps
                    /\ pc' = "create"
                    /\ UNCHANGED result
               ELSE /\ result' = r
                    /\ pc' = "done"
                    /\ UNCHANGED all_deps
    /\ UNCHANGED <<manifest, include, exclude, parentExists, file0>>
    /\ UNCHANGED updateVars

\* 44-62
ProcessDependencies ==
    /\ pc = "process"
    /\ LET dependencies ==
               IF manifest.dependencies = None THEN <<>>
               ELSE Unwrap(manifest.dependencies)
       IN  \E r \in process_dependencies(include, exclude, dependencies,
                                         manifest.optional_dependencies) :
               IF r.kind = "Ok"
               THEN /\ all_deps' = required_first(include, exclude, dependencies) \o r.deps
                    /\ pc' = "create"
                    /\ UNCHANGED result
               ELSE /\ result' = r
                    /\ pc' = "done"
                    /\ UNCHANGED all_deps
    /\ UNCHANGED <<manifest, include, exclude, parentExists, file0, file>>
    /\ UNCHANGED updateVars

\* 64-67, File::create succeeds: the file exists and is empty
CreateFile ==
    /\ pc = "create"
    /\ file' = FileOf(<<>>)
    /\ pc' = "write"
    /\ UNCHANGED <<manifest, include, exclude, parentExists, file0, all_deps, result>>
    /\ UNCHANGED updateVars

\* 64-67, File::create fails
CreateFileFails ==
    /\ pc = "create"
    /\ result' = [kind |-> "IOError"]
    /\ pc' = "done"
    /\ UNCHANGED <<manifest, include, exclude, parentExists, file0, file, all_deps>>
    /\ UNCHANGED updateVars

\* 69-74: one line per dependency, in order
WriteLines ==
    /\ pc = "write"
    /\ file' = FileOf(file.lines \o all_deps)
    /\ result' = [kind |-> "Ok"]
    /\ pc' = "done"
    /\ UNCHANGED <<manifest, include, exclude, parentExists, file0, all_deps>>
    /\ UNCHANGED updateVars

----------------------------------------------------------------------------
(* Inputs of the export *)

RequiredDeps == {DepA, DepA2, DepDev}
GroupNames == {"dev", "docs"}
GroupLists == {<<DepB, DepC>>, <<DepD>>}

\* option names in a fixed order; the code reads include and exclude only
\* through contains, is_empty and set conversion
FilterNames == <<"required", "dev", "docs", "a">>

RECURSIVE Pick(_, _)
Pick(names, S) ==
    IF names = <<>> THEN <<>>
    ELSE (IF Head(names) \in S THEN <<Head(names)>> ELSE <<>>) \o Pick(Tail(names), S)

Filters == {Pick(FilterNames, S) :
              S \in {T \in SUBSET Range(FilterNames) : Cardinality(T) <= MaxFilter}}

OptionalTables ==
    {t \in SeqsUpTo([key : GroupNames, value : GroupLists], Cardinality(GroupNames)) :
        \A i, j \in 1..Len(t) : i /= j => t[i].key /= t[j].key}

ExportManifests ==
    [dependencies : {None} \cup {Some(d) : d \in SeqsUpTo(RequiredDeps, MaxRequired)},
     optional_dependencies : {None} \cup {Some(t) : t \in OptionalTables}]

OldFile == FileOf(<<Dep("old", "==", 1)>>)

InitUpdateIdle ==
    /\ installed = <<>>
    /\ prevSeen = None
    /\ lastSeen = None
    /\ loaded = None
    /\ wrote = FALSE
    /\ runs = 0

Init ==
    /\ manifest \in ExportManifests
    /\ include \in Filters
    /\ exclude \in Filters
    /\ parentExists \in BOOLEAN
    /\ file0 \in (IF parentExists THEN {NoFile, OldFile} ELSE {NoFile})
    /\ file = file0
    /\ all_deps = <<>>
    /\ pc = "start"
    /\ result = [kind |-> "Running"]
    /\ InitUpdateIdle

Next ==
    \/ CheckParent
    \/ CheckDependencies
    \/ ProcessDependencies
    \/ CreateFile
    \/ CreateFileFails
    \/ WriteLines

Spec == Init /\ [][Next]_vars

----------------------------------------------------------------------------
(* Properties of the export *)

Returned == pc = "done"

\* the export got past the directory check and the structure check
ReachedProcess ==
    /\ parentExists
    /\ manifest.dependencies /= None
    /\ manifest.optional_dependencies /= None

RequiredList == IF manifest.dependencies = None THEN <<>> ELSE Unwrap(manifest.dependencies)

OptionalTable ==
    IF manifest.optional_dependencies = None THEN <<>>
    ELSE Unwrap(manifest.optional_dependencies)

\* the groups a manifest declares: "required" and its optional groups
DeclaredGroups == {"required"} \cup Keys(OptionalTable)

Requested == Range(include) \cup Range(exclude)

InBoth == Range(include) \cap Range(exclude)

RECURSIVE Select(_, _)
\* the values of the entries of table whose key is in S, in table order
Select(table, S) ==
    IF table = <<>> THEN <<>>
    ELSE (IF Head(table).key \in S THEN Head(table).value ELSE <<>>)
         \o Select(Tail(table), S)

C2_ExcludeOnly ==
    (Returned /\ result.kind = "Ok" /\ include = <<>> /\ exclude /= <<>>
        /\ Range(exclude) \subseteq Keys(OptionalTable)) =>
        file = FileOf(RequiredList \o Select(OptionalTable,
                                             Keys(OptionalTable) \ Range(exclude)))

\* C3: with no include and no exclude the exported file is the required list
\* followed by every optional group, nothing omitted, reordered or merged.
C3_EmptyFilterEverything ==
    (Returned /\ result.kind = "Ok" /\ include = <<>> /\ exclude = <<>>) =>
        file = FileOf(RequiredList \o Select(OptionalTable, Keys(OptionalTable)))

\* C4 as claimed: whenever a name is in both include and exclude, declared or
\* not, the export fails with DependencyGroupConflict naming every such name.
C4_ConflictAlways ==
    (Returned /\ ReachedProcess /\ InBoth /= {}) =>
        /\ result.kind = "DependencyGroupConflict"
        /\ InBoth \subseteq result.groups

\* C4: when every requested name is "required" or a declared optional group and
\* some name is in both include and exclude, the export fails with
\* DependencyGroupConflict and the error names every name that is in both lists.
C4_ConflictWhenDeclared ==
    (Returned /\ ReachedProcess /\ InBoth /= {} /\ Requested \subseteq DeclaredGroups) =>
        /\ result.kind = "DependencyGroupConflict"
        /\ InBoth \subseteq result.groups

\* two names in both lists, both reported
C4_Witness ==
    /\ Returned
    /\ result.kind = "DependencyGroupConflict"
    /\ Cardinality(InBoth) = 2
    /\ InBoth \subseteq result.groups

\* C5: a request that mentions a name that is neither "required" nor a declared
\* optional group fails with DependencyGroupNotFound naming such a name, and
\* the destination file is left as it was.
C5_UndeclaredNotFound ==
    (Returned /\ ReachedProcess /\ ~(Requested \subseteq DeclaredGroups)) =>
        /\ result.kind = "DependencyGroupNotFound"
        /\ result.group \in Requested \ DeclaredGroups
        /\ file = file0

ValidationErrors ==
    {"OutputFilePathDoesNotExist", "ProjectDependenciesNotFound",
     "DependencyGroupNotFound", "DependencyGroupConflict"}

\* C6: the destination file is as it was before the export until the directory
\* check, the structure check and the group validation have passed; an export
\* that returned one of the four validation errors left it untouched.
C6_FileAfterValidation ==
    /\ pc \in {"start", "metadata", "process"} => file = file0
    /\ result.kind \in ValidationErrors => file = file0

\* an export over an existing file that failed validation
C6_Witness ==
    /\ Returned
    /\ result.kind = "DependencyGroupConflict"
    /\ file0 = OldFile
    /\ file = OldFile

\* C7: the export fails with ProjectDependenciesNotFound exactly when the
\* manifest has neither a required list nor an optional table.
C7_NotFoundIffNeither ==
    (Returned /\ parentExists) =>
        (result.kind = "ProjectDependenciesNotFound"
            <=> (manifest.dependencies = None /\ manifest.optional_dependencies = None))

\* C10: DependencyGroupConflict is returned only when some name is in both the
\* include list and the exclude list the caller gave.
C10_ConflictOnlyIfInBoth ==
    (Returned /\ result.kind = "DependencyGroupConflict") => InBoth /= {}

----------------------------------------------------------------------------
(* Metadata operations used by update_project_dependencies: remove the old  *)
(* entry of that name, append the new one; matching is by name only         *)

HasName(list, n) == \E i \in 1..Len(list) : list[i].name = n

\* the list without its first entry named n
RemoveFirst(list, n) ==
    IF ~HasName(list, n) THEN list
    ELSE LET i == CHOOSE k \in 1..Len(list) :
                      list[k].name = n /\ \A j \in 1..(k - 1) : list[j].name /= n
         IN  SubSeq(list, 1, i - 1) \o SubSeq(list, i + 1, Len(list))

contains_dependency(m, dep) ==
    m.dependencies /= None /\ HasName(Unwrap(m.dependencies), dep.name)

remove_dependency(m, dep) ==
    IF m.dependencies = None THEN m
    ELSE [m EXCEPT !.dependencies = Some(RemoveFirst(Unwrap(m.dependencies), dep.name))]

add_dependency(m, dep) ==
    [m EXCEPT !.dependencies =
        Some((IF m.dependencies = None THEN <<>> ELSE Unwrap(m.dependencies)) \o <<dep>>)]

GroupOf(m, g) ==
    IF m.optional_dependencies = None \/ g \notin Keys(Unwrap(m.optional_dependencies))
    THEN <<>>
    ELSE LET t == Unwrap(m.optional_dependencies)
         IN  t[CHOOSE i \in 1..Len(t) : t[i].key = g].value

contains_optional_dependency(m, dep, g) == HasName(GroupOf(m, g), dep.name)

remove_optional_dependency(m, dep, g) ==
    IF m.optional_dependencies = None \/ g \notin Keys(Unwrap(m.optional_dependencies))
    THEN m
    ELSE [m EXCEPT !.optional_dependencies =
            Some(IndexMapInsert(Unwrap(m.optional_dependencies), g,
                                RemoveFirst(GroupOf(m, g), dep.name)))]

add_optional_dependency(m, dep, g) ==
    [m EXCEPT !.optional_dependencies =
        Some(IndexMapInsert(IF m.optional_dependencies = None THEN <<>>
                            ELSE Unwrap(m.optional_dependencies),
                            g, GroupOf(m, g) \o <<dep>>))]

\* every name the manifest declares, in the required list or in a group
contains_dependency_any(m, n) ==
    \/ m.dependencies /= None /\ HasName(Unwrap(m.dependencies), n)
    \/ /\ m.optional_dependencies /= None
       /\ \E i \in 1..Len(Unwrap(m.optional_dependencies)) :
              HasName(Unwrap(m.optional_dependencies)[i].value, n)

----------------------------------------------------------------------------
(* update_project_dependencies, update.rs 11-87 *)

\* 68: Dependency::from_str(&pkg.to_string()), the pin "name==version"
Pin(pkg) == Dep(pkg.name, "==", pkg.version)

\* 61-65
groups_of(m) ==
    IF m.optional_dependencies = None THEN <<>>
    ELSE [i \in 1..Len(Unwrap(m.optional_dependencies)) |->
             Unwrap(m.optional_dependencies)[i].key]

RECURSIVE reconcile_groups(_, _, _)
\* 73-80: the inner loop over the groups
reconcile_groups(m, dep, gs) ==
    IF gs = <<>> THEN m
    ELSE reconcile_groups(
             IF contains_optional_dependency(m, dep, Head(gs))
             THEN add_optional_dependency(
                      remove_optional_dependency(m, dep, Head(gs)), dep, Head(gs))
             ELSE m,
             dep, Tail(gs))

\* 69-72
reconcile_required(m, dep) ==
    IF contains_dependency(m, dep)
    THEN add_dependency(remove_dependency(m, dep), dep)
    ELSE m

RECURSIVE reconcile(_, _, _)
\* 67-81: the loop over the installed packages
reconcile(m, pkgs, gs) ==
    IF pkgs = <<>> THEN m
    ELSE reconcile(reconcile_groups(reconcile_required(m, Pin(Head(pkgs))),
                                    Pin(Head(pkgs)), gs),
                   Tail(pkgs), gs)

PackageNames == {"a", "b"}

RECURSIVE Upgrades(_, _)
\* 22-59, python_env.update_packages: the packages named may move to a newer
\* version, nothing else changes in the environment
Upgrades(pkgs, names) ==
    IF pkgs = <<>> THEN {<<>>}
    ELSE {<<[name |-> Head(pkgs).name, version |-> v]>> \o rest :
             v \in (IF Head(pkgs).name \in names
                    THEN Head(pkgs).version..MaxVersion
                    ELSE {Head(pkgs).version}),
             rest \in Upgrades(Tail(pkgs), names)}

\* 22-41: the names given that the manifest declares
\* 43-58: no names given, every name of the manifest
names_to_update(m, dependencies) ==
    IF dependencies = None
    THEN {n \in PackageNames : contains_dependency_any(m, n)}
    ELSE {n \in Range(Unwrap(dependencies)) : contains_dependency_any(m, n)}

\* update_project_dependencies(dependencies, config, options)
UpdateProjectDependencies(dependencies) ==
    /\ runs < MaxRuns
    /\ LET names == names_to_update(manifest, dependencies)
       IN  IF dependencies /= None /\ names = {}
           THEN \* 37-39: nothing to update, return Ok
                UNCHANGED <<manifest, installed, prevSeen, lastSeen, loaded, wrote, runs>>
           ELSE \E env \in Upgrades(installed, names) :
                    LET metadata == reconcile(manifest, env, groups_of(manifest))
                    IN  /\ installed' = env
                        /\ prevSeen' = lastSeen
                        /\ lastSeen' = Some(env)
                        /\ loaded' = Some(manifest)
                        /\ wrote' = (manifest /= metadata)
                        /\ manifest' = metadata
                        /\ runs' = runs + 1
    /\ UNCHANGED <<include, exclude, parentExists, file0, file, all_deps, pc, result>>

UpdateAll == UpdateProjectDependencies(None)

UpdateNamed == \E n \in {<<"a">>, <<"b">>, <<"a", "b">>} : UpdateProjectDependencies(Some(n))

----------------------------------------------------------------------------
(* Inputs of the update *)

UpdateDeps == {DepA, DepA2, DepB}
UpdateGroupLists == {<<DepA>>, <<DepB, DepA>>}

UpdateTables ==
    {<<>>} \cup {<<[key |-> "dev", value |-> l]>> : l \in UpdateGroupLists}
           \cup {<<[key |-> "dev", value |-> l], [key |-> "docs", value |-> k]>> :
                    l \in UpdateGroupLists, k \in UpdateGroupLists}

\* required lists; one name may come twice with two requirements (as with
\* environment markers), the same line does not come twice
UpdateRequired ==
    {d \in SeqsUpTo(UpdateDeps, MaxRequired) :
        \A i, j \in 1..Len(d) : i /= j => d[i] /= d[j]}

UpdateManifests ==
    [dependencies : {None} \cup {Some(d) : d \in UpdateRequired},
     optional_dependencies : {None} \cup {Some(t) : t \in UpdateTables}]

\* an environment holds one version of a package
Environments ==
    {e \in SeqsUpTo([name : PackageNames, version : 1..MaxVersion],
                    Cardinality(PackageNames)) :
        \A i, j \in 1..Len(e) : i /= j => e[i].name /= e[j].name}

InitUpdate ==
    /\ manifest \in UpdateManifests
    /\ installed \in Environments
    /\ prevSeen = None
    /\ lastSeen = None
    /\ loaded = None
    /\ wrote = FALSE
    /\ runs = 0
    /\ include = <<>>
    /\ exclude = <<>>
    /\ parentExists = TRUE
    /\ file0 = NoFile
    /\ file = NoFile
    /\ all_deps = <<>>
    /\ pc = "done"
    /\ result = [kind |-> "Running"]

NextUpdate == UpdateAll \/ UpdateNamed

SpecUpdate == InitUpdate /\ [][NextUpdate]_vars

----------------------------------------------------------------------------
(* Properties of the update *)

Names(list) == {list[i].name : i \in 1..Len(list)}

InstalledNames(pkgs) == {pkgs[i].name : i \in 1..Len(pkgs)}

RequiredOf(m) == IF m.dependencies = None THEN <<>> ELSE Unwrap(m.dependencies)

\* before and after hold the same names; after pins every installed name at
\* the installed version; the rest of before is in after with its requirement
Reconciled(before, after, pkgs) ==
    /\ Names(before) = Names(after)
    /\ \A i \in 1..Len(after) :
           \A k \in 1..Len(pkgs) :
               after[i].name = pkgs[k].name => after[i] = Pin(pkgs[k])
    /\ SelectSeq(before, LAMBDA d : d.name \notin InstalledNames(pkgs))
           = SelectSeq(after, LAMBDA d : d.name \notin InstalledNames(pkgs))

\* C8: a run of update that sees the installed packages the run before it saw
\* reconciles to the manifest it loaded and writes nothing.
C8_SecondRunWritesNothing ==
    (runs >= 2 /\ prevSeen = lastSeen) => ~wrote

\* C9: after the reconciliation loop the required list and every optional group
\* hold the names they held, every dependency with an installed name carries the
\* installed version's pin, and every other dependency keeps its requirement.
C9_ReconcileKeepsGroups ==
    runs >= 1 =>
        /\ Reconciled(RequiredOf(Unwrap(loaded)), RequiredOf(manifest), Unwrap(lastSeen))
        /\ groups_of(manifest) = groups_of(Unwrap(loaded))
        /\ \A g \in Range(groups_of(Unwrap(loaded))) :
               Reconciled(GroupOf(Unwrap(loaded), g), GroupOf(manifest, g),
                          Unwrap(lastSeen))

====
